---------------------------- MODULE Spec2Model ----------------------------
(***************************************************************************)
(* Model of src/1234.py: a Streamlit dashboard script.                     *)
(*                                                                         *)
(*  - load_data (lines 12-79) reshapes a wide CSV table (one column per    *)
(*    date and metric) into a long table (one row per item and date).      *)
(*  - the sidebar loop (lines 124-152) keeps one selection per filterable  *)
(*    field in st.session_state.filters and offers cross-filtered options. *)
(*  - the tail of the script (lines 154-201) clamps by date, aggregates    *)
(*    into fixed-width buckets and renders, or warns when nothing is left. *)
(*                                                                         *)
(* A data frame is a sequence of rows.  A nullable number or date is a     *)
(* sequence of length 0 (NaN / NaT) or 1.  A null identifier is the empty  *)
(* CSV field "".  A column name is a sequence of parts, so that substring  *)
(* tests, replacement and date parsing act on its structure.               *)
(***************************************************************************)
EXTENDS Integers, Sequences, FiniteSets

VARIABLES
    raw,          \* content of the CSV file at data_path, or Unreadable
    merged_df,    \* value returned by load_data (line 85)
    errors,       \* st.error messages emitted by load_data
    pc,           \* position of the script
    filters,      \* st.session_state.filters: field -> set of selected values
    options,      \* options last offered by each field's widgets
    fidx,         \* index in filter_fields of the next loop iteration
    start_date,   \* date_input result (line 158)
    end_date,
    interval_days,\* line 163
    output        \* what the current rerun rendered

vars == <<raw, merged_df, errors, pc, filters, options, fidx,
          start_date, end_date, interval_days, output>>

-----------------------------------------------------------------------------
(* Bounds *)

MaxRawRows == 2

-----------------------------------------------------------------------------
(* Generic helpers *)

Range(s) == {s[i] : i \in 1..Len(s)}

RECURSIVE SumSeq(_)
SumSeq(s) == IF s = <<>> THEN 0 ELSE Head(s) + SumSeq(Tail(s))

Abs(x) == IF x < 0 THEN -x ELSE x

MinOf(S) == CHOOSE x \in S : \A y \in S : x <= y
MaxOf(S) == CHOOSE x \in S : \A y \in S : x >= y

NaN == <<>>
IsNa(v) == v = <<>>

-----------------------------------------------------------------------------
(* Column names *)

\* str.strip(): leading and trailing whitespace parts are removed.
RECURSIVE LStrip(_)
LStrip(name) ==
    IF name # <<>> /\ Head(name) = " " THEN LStrip(Tail(name)) ELSE name

RECURSIVE RStrip(_)
RStrip(name) ==
    IF name # <<>> /\ name[Len(name)] = " "
    THEN RStrip(SubSeq(name, 1, Len(name) - 1)) ELSE name

Strip(name) == RStrip(LStrip(name))

\* str.lower() on one part of a name.
LowerPart(p) ==
    CASE p = "Title"     -> "title"
      [] p = "COUNTRY"   -> "country"
      [] p = "_SALES"    -> "_sales"
      [] p = "_Restocks" -> "_restocks"
      [] OTHER           -> p

Lower(name) == [i \in 1..Len(name) |-> LowerPart(name[i])]

\* line 25: df.columns.str.strip().str.lower()
NormalizeColumns(cols) == [i \in 1..Len(cols) |-> Lower(Strip(cols[i]))]

\* line 31
required_columns ==
    << <<"title">>, <<"variation">>, <<"id">>, <<"type">>, <<"country">>, <<"channel">> >>

IdFields == {"title", "variation", "id", "type", "country", "channel"}

\* line 34
MissingColumns(cols) == SelectSeq(required_columns, LAMBDA c : c \notin Range(cols))

\* '<sub>' in col
Contains(col, sub) == \E i \in 1..Len(col) : col[i] = sub

\* lines 43-44
MeasureCols(cols, sub) == SelectSeq(cols, LAMBDA c : Contains(c, sub))

\* str.replace(sub, ''): every occurrence is removed.
StrReplace(col, sub) == SelectSeq(col, LAMBDA p : p # sub)

\* The calendar date a date token denotes, as a day number; two spellings of
\* one day denote the same date.
TokenDay(tok) ==
    CASE tok = "2024-01-01" -> <<1>>
      [] tok = "2024/01/01" -> <<1>>
      [] tok = "2024-01-03" -> <<3>>
      [] tok = "2024-01-08" -> <<8>>
      [] tok = "2024-02-01" -> <<32>>
      [] OTHER              -> <<>>

\* pd.to_datetime(..., errors='coerce'): NaT unless the whole string is a date.
ToDatetime(s) == IF Len(s) = 1 THEN TokenDay(s[1]) ELSE <<>>

-----------------------------------------------------------------------------
(* load_data *)

ColIndex(cols, c) == CHOOSE i \in 1..Len(cols) : cols[i] = c

\* Mutant of DropNaIds: dropna(how='all'), which keeps a row unless every
\* identifier is missing.
DropNaIdsHowAll(cols, rows) ==
    SelectSeq(rows, LAMBDA r :
        \E k \in 1..Len(required_columns) :
            r[ColIndex(cols, required_columns[k])] # "")

\* line 40: df.dropna(subset=required_columns)
DropNaIds(cols, rows) ==
    SelectSeq(rows, LAMBDA r :
        \A k \in 1..Len(required_columns) :
            r[ColIndex(cols, required_columns[k])] # "")

IdsOf(cols, r) ==
    [f \in IdFields |-> r[ColIndex(cols, <<f>>)]]

\* df.melt(id_vars=required_columns, value_vars=..., var_name='date'):
\* one row per value column and input row, value columns outermost.
Melt(cols, rows, value_vars) ==
    [n \in 1..(Len(value_vars) * Len(rows)) |->
        LET c == value_vars[((n - 1) \div Len(rows)) + 1]
            r == rows[((n - 1) % Len(rows)) + 1]
        IN  [ids |-> IdsOf(cols, r), date |-> c, value |-> r[ColIndex(cols, c)]]]

\* lines 59-61 / 68-70: strip the family suffix, parse, drop NaT.
ParseDates(long, sub) ==
    SelectSeq(
        [n \in 1..Len(long) |->
            [long[n] EXCEPT !.date = ToDatetime(StrReplace(long[n].date, sub))]],
        LAMBDA r : ~IsNa(r.date))

SameKey(a, b) == a.ids = b.ids /\ a.date = b.date

\* One sales row joined with every restocks row of the same key, or with a
\* missing restocks value when there is none.
JoinRow(l, restocks_df) ==
    LET m == SelectSeq(restocks_df, LAMBDA r : SameKey(l, r))
    IN  IF m = <<>>
        THEN << [ids |-> l.ids, date |-> l.date, sales |-> l.value, restocks |-> NaN] >>
        ELSE [n \in 1..Len(m) |->
                [ids |-> l.ids, date |-> l.date,
                 sales |-> l.value, restocks |-> m[n].value]]

RECURSIVE JoinLeft(_, _)
JoinLeft(sales_df, restocks_df) ==
    IF sales_df = <<>> THEN <<>>
    ELSE JoinRow(Head(sales_df), restocks_df) \o JoinLeft(Tail(sales_df), restocks_df)

\* line 73: pd.merge(sales_df, restocks_df, on=required_columns + ['date'],
\* how='outer'): every pair of rows with equal keys, plus the unmatched rows
\* of either side with the other side's value missing.
Merge(sales_df, restocks_df) ==
    LET rightOnly ==
            SelectSeq(restocks_df,
                      LAMBDA r : \A n \in 1..Len(sales_df) : ~SameKey(sales_df[n], r))
    IN  JoinLeft(sales_df, restocks_df) \o
        [n \in 1..Len(rightOnly) |->
            [ids |-> rightOnly[n].ids, date |-> rightOnly[n].date,
             sales |-> NaN, restocks |-> rightOnly[n].value]]

\* fillna(0)
FillNa(v) == IF IsNa(v) THEN <<0>> ELSE v

\* lines 76-77
FillMetrics(df) ==
    [n \in 1..Len(df) |->
        [df[n] EXCEPT !.sales = FillNa(df[n].sales),
                      !.restocks = FillNa(df[n].restocks)]]

Unreadable == [header |-> <<>>, rows |-> <<>>, readable |-> FALSE]

ErrRead == [kind |-> "read", names |-> <<>>]
ErrMissingColumns(m) == [kind |-> "missing_columns", names |-> m]
ErrNoFamily(sub) == [kind |-> "no_family", names |-> <<sub>>]

\* Mutant of FamilyError: the two checks in the other order.
FamilyErrorRestocksFirst(cols) ==
    IF MeasureCols(cols, "_restocks") = <<>> THEN << ErrNoFamily("_restocks") >>
    ELSE IF MeasureCols(cols, "_sales") = <<>> THEN << ErrNoFamily("_sales") >>
    ELSE <<>>

\* lines 43-52: which family the measurement check reports, if any.
FamilyError(cols) ==
    IF MeasureCols(cols, "_sales") = <<>> THEN << ErrNoFamily("_sales") >>
    ELSE IF MeasureCols(cols, "_restocks") = <<>> THEN << ErrNoFamily("_restocks") >>
    ELSE <<>>

\* lines 54-79
Reshape(cols, rows) ==
    LET sales_df    == ParseDates(Melt(cols, rows, MeasureCols(cols, "_sales")), "_sales")
        restocks_df == ParseDates(Melt(cols, rows, MeasureCols(cols, "_restocks")), "_restocks")
    IN  FillMetrics(Merge(sales_df, restocks_df))

\* load_data(path): the frame returned and the errors reported.
load_data(file) ==
    IF ~file.readable
    THEN [frame |-> <<>>, errors |-> << ErrRead >>]
    ELSE
    LET cols == NormalizeColumns(file.header)
        missing_columns == MissingColumns(cols)
    IN  IF missing_columns # <<>>
        THEN [frame |-> <<>>,
              errors |-> << ErrMissingColumns(missing_columns) >>]
        ELSE
        LET rows == DropNaIds(cols, file.rows)
        IN  IF FamilyError(cols) # <<>>
            THEN [frame |-> <<>>, errors |-> FamilyError(cols)]
            ELSE [frame |-> Reshape(cols, rows), errors |-> <<>>]

-----------------------------------------------------------------------------
(* Input files *)

IdColsStyled ==
    << <<" ", "Title">>, <<"variation">>, <<"id">>, <<"type">>,
       <<"COUNTRY", " ">>, <<"channel">> >>

IdColsNoCountry ==
    << <<"title">>, <<"variation">>, <<"id">>, <<"type">>, <<"channel">> >>

D1Sales     == <<"2024-01-01", "_sales">>
D1AltSales  == <<"2024/01/01", "_sales">>
D3Sales     == <<"2024-01-03", "_sales">>
D8Sales     == <<"2024-01-08", "_sales">>
D1Restocks  == <<"2024-01-01", "_restocks">>
D3Restocks  == <<"2024-01-03", "_restocks">>
D32Restocks == <<"2024-02-01", "_restocks">>

\* The headers load_data is tried on: <<identifier columns, measurement columns>>.
Headers ==
    { <<required_columns, <<D1Sales, D1Restocks, D8Sales>> >>,
      <<required_columns, <<D1Sales, D1AltSales, D1Restocks>> >>,
      <<required_columns, <<D1Sales, D8Sales>> >>,
      <<required_columns, <<D1Restocks>> >>,
      <<required_columns, <<>> >>,
      <<required_columns, <<D1Sales, <<"total", "_restocks">> >> >>,
      <<required_columns, << <<"2024-01-01", "_sales", "_note">>, D1Restocks>> >>,
      <<required_columns, << <<"2024-01-01", "_sales", "_restocks">> >> >>,
      <<IdColsStyled, << <<"2024-01-01", "_SALES">>, <<"2024-01-01", "_Restocks", " ">> >> >>,
      <<IdColsNoCountry, <<D1Sales, D1Restocks>> >>,
      <<IdColsNoCountry, <<>> >> }

Item(t, v, i, c) ==
    [title |-> t, variation |-> v, id |-> i, type |-> "t1", country |-> c, channel |-> "ch1"]

\* The items a raw row may describe; the last has no country.
Items == { Item("A", "v1", "i1", "c1"), Item("B", "v2", "i2", "c1"), Item("A", "v1", "i1", "") }

\* The CSV row of `item` under header h, with the measurement cells `cells`.
RawRow(h, item, cells) ==
    [k \in 1..Len(h[1]) |-> item[Lower(Strip(h[1][k]))[1]]] \o cells

\* Row r of a generated file: the cells in `missing` are empty, every other
\* cell holds a number of its own.
GenCells(h, r, missing) ==
    [j \in 1..Len(h[2]) |-> IF j \in missing THEN NaN ELSE <<10 * r + j>>]

File(h, rows) == [header |-> h[1] \o h[2], rows |-> rows, readable |-> TRUE]

\* raw is a file load_data is tried on: unreadable, or some header with up
\* to MaxRawRows rows, each describing some item and missing some cells.
IsLoadFile(file) ==
    \/ file = Unreadable
    \/ \E h \in Headers, n \in 0..MaxRawRows :
          \E pick \in [1..n -> Items \X SUBSET (1..Len(h[2]))] :
             file = File(h, [r \in 1..n |-> RawRow(h, pick[r][1], GenCells(h, r, pick[r][2]))])

\* The files the dashboard session is run on.
FileWide ==
    LET h == <<required_columns, <<D1Sales, D1Restocks, D8Sales, D32Restocks>> >>
    IN  File(h, << RawRow(h, Item("A", "v1", "i1", "c1"), << <<10>>, <<-5>>, <<5>>, <<3>> >>) >>)

FileRich ==
    LET h == <<required_columns, <<D1Sales, D1Restocks, D3Sales, D3Restocks>> >>
    IN  File(h, << RawRow(h, Item("A", "v1", "i1", "c1"), << <<10>>, <<-5>>, <<4>>, <<2>> >>),
                   RawRow(h, Item("B", "v2", "i2", "c1"), << <<7>>, NaN, <<1>>, <<6>> >>),
                   RawRow(h, Item("A", "v2", "i3", "c1"), << NaN, <<-1>>, <<2>>, <<-2>> >>) >>)

SessionFiles == { FileWide, FileRich, Unreadable }

-----------------------------------------------------------------------------
(* Filters: lines 91-115 *)

\* line 92
filter_fields == <<"title", "variation", "type", "country", "channel">>

FilterFields == Range(filter_fields)

\* line 96
NoFilters == [f \in FilterFields |-> {}]

\* df[df[field].isin(selection)]
IsIn(df, field, selection) == SelectSeq(df, LAMBDA r : r.ids[field] \in selection)

\* Mutant of Restricts: an empty selection restricts too.
RestrictsAlways(selection) == TRUE

\* A non-empty selection restricts; an empty one does not (lines 109, 128).
Restricts(selection) == selection # {}

\* lines 106-111: the loop of get_filtered_df from field k on.
RECURSIVE FilterFrom(_, _, _)
FilterFrom(df, filt, k) ==
    IF k > Len(filter_fields) THEN df
    ELSE FilterFrom(IF Restricts(filt[filter_fields[k]])
                    THEN IsIn(df, filter_fields[k], filt[filter_fields[k]])
                    ELSE df,
                    filt, k + 1)

get_filtered_df(df, filt) == FilterFrom(df, filt, 1)

\* Mutant of AppliesTo: the field's own selection is applied as well.
AppliesToOwnField(field, other_field, filt) == filt[other_field] # {}

\* Whether the inner loop of the sidebar applies other_field's selection
\* when the options of `field` are computed (line 128).
AppliesTo(field, other_field, filt) ==
    other_field # field /\ Restricts(filt[other_field])

\* lines 125-129: the table filtered by every other field's selection.
RECURSIVE TempFrom(_, _, _, _)
TempFrom(df, filt, field, k) ==
    IF k > Len(filter_fields) THEN df
    ELSE TempFrom(IF AppliesTo(field, filter_fields[k], filt)
                  THEN IsIn(df, filter_fields[k], filt[filter_fields[k]])
                  ELSE df,
                  filt, field, k + 1)

\* lines 114-115: sorted(df[field].unique()), as a set.
get_filter_options(df, field) == {df[n].ids[field] : n \in 1..Len(df)}

\* lines 125-131
SidebarOptions(df, filt, field) == get_filter_options(TempFrom(df, filt, field, 1), field)

-----------------------------------------------------------------------------
(* Date clamp and aggregation: lines 165-183 *)

Day(r) == r.date[1]

\* pandas sums skip NaN.
Num(v) == IF IsNa(v) THEN 0 ELSE v[1]

\* Mutant of DateClamp: the end of the range is not applied.
DateClampNoEnd(df, s, e) == SelectSeq(df, LAMBDA r : r.date[1] >= s)

\* lines 167-170
DateClamp(df, s, e) == SelectSeq(df, LAMBDA r : Day(r) >= s /\ Day(r) <= e)

\* line 173: filtered_df.empty
IsEmpty(df) == Len(df) = 0

\* Mutant of GrouperOrigin: bins counted from the epoch (origin='epoch').
GrouperOriginEpoch(df) == 0

\* pd.Grouper(key='date', freq='<w>D'): left-closed bins of w days whose
\* origin is the first day of the frame being grouped.
GrouperOrigin(df) == MinOf({Day(df[n]) : n \in 1..Len(df)})

BucketStart(d, origin, w) == origin + w * ((d - origin) \div w)

GroupKeys(df, w) ==
    {<<df[n].ids["title"], BucketStart(Day(df[n]), GrouperOrigin(df), w)>> : n \in 1..Len(df)}

GroupRows(df, w, key) ==
    SelectSeq(df, LAMBDA r :
        r.ids["title"] = key[1] /\ BucketStart(Day(r), GrouperOrigin(df), w) = key[2])

\* sort_values('date')
RECURSIVE SortByDate(_)
SortByDate(S) ==
    IF S = {} THEN <<>>
    ELSE LET first == CHOOSE r \in S : \A q \in S : r.date <= q.date
         IN  <<first>> \o SortByDate(S \ {first})

\* lines 177-178
SalesAgg(df, w) ==
    SortByDate({ [title |-> key[1], date |-> key[2],
                  sales |-> SumSeq([n \in 1..Len(GroupRows(df, w, key)) |->
                                        Num(GroupRows(df, w, key)[n].sales)])] :
                 key \in GroupKeys(df, w) })

\* Mutant of RestockMagnitude: the sum of the absolute values.
SumOfMagnitudes(entries) == SumSeq([n \in 1..Len(entries) |-> Abs(entries[n])])

\* line 182 applied to one group's signed restock entries
RestockMagnitude(entries) == Abs(SumSeq(entries))

\* lines 181-183
RestocksAgg(df, w) ==
    SortByDate({ [title |-> key[1], date |-> key[2],
                  restocks |-> RestockMagnitude([n \in 1..Len(GroupRows(df, w, key)) |->
                                        Num(GroupRows(df, w, key)[n].restocks)])] :
                 key \in GroupKeys(df, w) })

NoOutput ==
    [warning |-> FALSE, aggregated |-> FALSE, sales_agg |-> <<>>, restocks_agg |-> <<>>,
     charts |-> <<>>, table |-> <<>>]

\* lines 173-201
Rendered(filtered_df, w) ==
    IF IsEmpty(filtered_df)
    THEN [NoOutput EXCEPT !.warning = TRUE]
    ELSE [warning |-> FALSE, aggregated |-> TRUE,
          sales_agg |-> SalesAgg(filtered_df, w),
          restocks_agg |-> RestocksAgg(filtered_df, w),
          charts |-> <<"fig_sales", "fig_restocks">>,
          table |-> filtered_df]

-----------------------------------------------------------------------------
(* The script *)

\* The state before load_data runs; raw is left to the caller.
BeforeLoad ==
    /\ merged_df = <<>>
    /\ errors = <<>>
    /\ pc = "load"
    /\ filters = NoFilters
    /\ options = NoFilters
    /\ fidx = 1
    /\ start_date = 0
    /\ end_date = 0
    /\ interval_days = 0
    /\ output = NoOutput

Init == raw \in SessionFiles /\ BeforeLoad

InitLoad == IsLoadFile(raw) /\ BeforeLoad

\* line 85: merged_df = load_data(data_path)
LoadData ==
    /\ pc = "load"
    /\ merged_df' = load_data(raw).frame
    /\ errors' = load_data(raw).errors
    /\ pc' = "loaded"
    /\ UNCHANGED <<raw, filters, options, fidx, start_date, end_date, interval_days, output>>

\* lines 88-89: st.stop() when nothing was loaded
Stop ==
    /\ pc = "loaded"
    /\ IsEmpty(merged_df)
    /\ pc' = "stopped"
    /\ UNCHANGED <<raw, merged_df, errors, filters, options, fidx,
                   start_date, end_date, interval_days, output>>

\* lines 95-96 and 121: the first run of a session reaches the sidebar
StartSession ==
    /\ pc = "loaded"
    /\ ~IsEmpty(merged_df)
    /\ filters' = NoFilters
    /\ fidx' = 1
    /\ pc' = "sidebar"
    /\ UNCHANGED <<raw, merged_df, errors, options, start_date, end_date,
                   interval_days, output>>

\* lines 124-152: one iteration of the sidebar loop.  The multiselect
\* returns some subset of the options it is offered.
SidebarField ==
    /\ pc = "sidebar"
    /\ LET field == filter_fields[fidx]
           opts == SidebarOptions(merged_df, filters, field)
           current_selection == {item \in filters[field] : item \in opts}
           pruned == [filters EXCEPT ![field] = current_selection]
       IN  /\ \E selected \in SUBSET opts :
                filters' = [pruned EXCEPT ![field] = selected]
           /\ options' = [options EXCEPT ![field] = opts]
    /\ IF fidx < Len(filter_fields)
       THEN fidx' = fidx + 1 /\ pc' = "sidebar"
       ELSE fidx' = 1 /\ pc' = "render"
    /\ UNCHANGED <<raw, merged_df, errors, start_date, end_date, interval_days, output>>

MergedDays == {Day(merged_df[n]) : n \in 1..Len(merged_df)}

\* lines 154-201: the date range and interval widgets, the clamp, and either
\* the warning or the aggregation and the charts.
Render ==
    /\ pc = "render"
    /\ \E s \in MinOf(MergedDays)..MaxOf(MergedDays), w \in {7, 15, 30} :
         \E e \in s..MaxOf(MergedDays) :
            /\ start_date' = s
            /\ end_date' = e
            /\ interval_days' = w
            /\ output' = Rendered(DateClamp(get_filtered_df(merged_df, filters), s, e), w)
    /\ pc' = "idle"
    /\ UNCHANGED <<raw, merged_df, errors, filters, options, fidx>>

\* A widget interaction reruns the script from the top; load_data is cached.
Rerun ==
    /\ pc = "idle"
    /\ pc' = "sidebar"
    /\ fidx' = 1
    /\ output' = NoOutput
    /\ start_date' = 0
    /\ end_date' = 0
    /\ interval_days' = 0
    /\ UNCHANGED <<raw, merged_df, errors, filters, options>>

\* lines 99-100 and 142: the button's callback runs with the options bound
\* when the button was rendered, then the script reruns.
SelectAll ==
    /\ pc = "idle"
    /\ \E field \in FilterFields :
         filters' = [filters EXCEPT ![field] = options[field]]
    /\ pc' = "sidebar"
    /\ fidx' = 1
    /\ output' = NoOutput
    /\ start_date' = 0
    /\ end_date' = 0
    /\ interval_days' = 0
    /\ UNCHANGED <<raw, merged_df, errors, options>>

\* lines 102-103 and 144
DeselectAll ==
    /\ pc = "idle"
    /\ \E field \in FilterFields :
         filters' = [filters EXCEPT ![field] = {}]
    /\ pc' = "sidebar"
    /\ fidx' = 1
    /\ output' = NoOutput
    /\ start_date' = 0
    /\ end_date' = 0
    /\ interval_days' = 0
    /\ UNCHANGED <<raw, merged_df, errors, options>>

Next ==
    \/ LoadData
    \/ Stop
    \/ StartSession
    \/ SidebarField
    \/ Render
    \/ Rerun
    \/ SelectAll
    \/ DeselectAll

Spec == Init /\ [][Next]_vars

NextLoad == LoadData

SpecLoad == InitLoad /\ [][NextLoad]_vars

-----------------------------------------------------------------------------
(* Properties of load_data, checked under SpecLoad *)

Loaded == pc = "loaded"

LoadSucceeded == Loaded /\ errors = <<>>

LoadFailed == Loaded /\ errors # <<>> /\ merged_df = <<>>

RawCols == NormalizeColumns(raw.header)

HasIds(r) == \A k \in 1..Len(required_columns) : r[ColIndex(RawCols, required_columns[k])] # ""

\* Sum of a metric over the long records of one identifier tuple and date.
LongSum(ids, d, metric) ==
    SumSeq([n \in 1..Len(merged_df) |->
              IF merged_df[n].ids = ids /\ merged_df[n].date = d
              THEN Num(merged_df[n][metric]) ELSE 0])

\* C1: whenever load_data succeeds, every row of the long table has a
\* non-null value in each identifier column, a non-null date and non-null
\* sales and restocks values.
C1_NoNulls ==
    LoadSucceeded =>
        \A n \in 1..Len(merged_df) :
            /\ \A f \in IdFields : merged_df[n].ids[f] # ""
            /\ ~IsNa(merged_df[n].date)
            /\ ~IsNa(merged_df[n].sales)
            /\ ~IsNa(merged_df[n].restocks)

\* C1 witness: a successful load of a file holding a row without country and
\* an empty cell, whose long table has a zero-filled restocks value.
C1_Witness ==
    /\ LoadSucceeded
    /\ \E i \in 1..Len(raw.rows) : ~HasIds(raw.rows[i])
    /\ \E i \in 1..Len(raw.rows) :
          HasIds(raw.rows[i]) /\ \E j \in 1..Len(RawCols) :
              Contains(RawCols[j], "_restocks") /\ IsNa(raw.rows[i][j])
    /\ \E n \in 1..Len(merged_df) :
          merged_df[n].restocks = <<0>> /\ merged_df[n].sales # <<0>>

\* C2: the long table holds at most one record per identifier tuple and
\* date, for every raw table.
C2_OneRecordPerKey ==
    Loaded =>
        \A m, n \in 1..Len(merged_df) :
            (merged_df[m].ids = merged_df[n].ids /\ merged_df[m].date = merged_df[n].date)
                => m = n

\* The round trip of one metric family: for every item row of the raw table
\* and every column of the family that names a date, the long values of that
\* item and date sum to the cell (0 when the cell is empty); and a record
\* whose date no column of the family names carries 0.
RoundTrip(sub, metric) ==
    LET fam == MeasureCols(RawCols, sub)
        DateOf(c) == ToDatetime(StrReplace(c, sub))
    IN  /\ \A i \in 1..Len(raw.rows) : \A k \in 1..Len(fam) :
              (HasIds(raw.rows[i]) /\ ~IsNa(DateOf(fam[k]))) =>
                  LongSum(IdsOf(RawCols, raw.rows[i]), DateOf(fam[k]), metric)
                      = Num(raw.rows[i][ColIndex(RawCols, fam[k])])
        /\ \A n \in 1..Len(merged_df) :
              (\A k \in 1..Len(fam) : DateOf(fam[k]) # merged_df[n].date) =>
                  LongSum(merged_df[n].ids, merged_df[n].date, metric) = 0

\* C3: for every raw table load_data accepts, every identifier tuple and
\* every date, the long sales (restocks) values of that tuple and date sum
\* to the wide cell of that item and date, or to 0 when the cell is missing.
C3_RoundTrip ==
    LoadSucceeded => RoundTrip("_sales", "sales") /\ RoundTrip("_restocks", "restocks")

EndsWith(col, sub) == col # <<>> /\ col[Len(col)] = sub

\* The families no column matches by the pattern *<sub>.
AbsentBySuffix ==
    {sub \in {"_sales", "_restocks"} :
        \A i \in 1..Len(RawCols) : ~EndsWith(RawCols[i], sub)}

NamedFamilies ==
    UNION {Range(errors[i].names) : i \in {j \in 1..Len(errors) : errors[j].kind = "no_family"}}

IdsPresent == \A k \in 1..Len(required_columns) : required_columns[k] \in Range(RawCols)

NoColumnContains(sub) == \A i \in 1..Len(RawCols) : ~Contains(RawCols[i], sub)

-----------------------------------------------------------------------------
(* Properties of the session, checked under Spec *)

\* Row n of the loaded table passes every field's selection, an empty
\* selection passing everything.
Passes(n, filt) ==
    \A f \in FilterFields : filt[f] = {} \/ merged_df[n].ids[f] \in filt[f]

\* The values of `field` among the rows that pass the selections of the
\* fields other than `field`.
Reachable(field, filt) ==
    {merged_df[n].ids[field] :
        n \in {m \in 1..Len(merged_df) : Passes(m, [filt EXCEPT ![field] = {}])}}

AllValues(field) == {merged_df[n].ids[field] : n \in 1..Len(merged_df)}

\* The rows of the loaded table left by the selections and the date range.
Kept ==
    {n \in 1..Len(merged_df) :
        Passes(n, filters) /\ start_date <= Day(merged_df[n]) /\ Day(merged_df[n]) <= end_date}

Displayed == pc = "idle"

\* C5: when the filtered table is computed for display, every selected
\* value exists in the unfiltered table and is one of the options its field
\* would be offered under the other fields' final selections.
C5_NoStaleSelection ==
    Displayed =>
        \A f \in FilterFields :
            filters[f] \subseteq AllValues(f) /\ filters[f] \subseteq Reachable(f, filters)

\* The field whose widgets the sidebar loop rendered last.
LastOffered == IF pc = "render" THEN filter_fields[Len(filter_fields)] ELSE filter_fields[fidx - 1]

InSession == pc \in {"sidebar", "render", "idle"}

\* C6: the options offered for a field are the distinct values of that field
\* in the table filtered by every other field's non-empty selection, and for
\* every two distinct fields F and G the options of F under a selection of G
\* are among the options of F with G's selection emptied.
C6_CrossFilterNarrowing ==
    /\ ((pc = "sidebar" /\ fidx > 1) \/ pc = "render") =>
           options[LastOffered] = Reachable(LastOffered, filters)
    /\ InSession =>
           \A F, G \in FilterFields :
               F # G => SidebarOptions(merged_df, filters, F)
                            \subseteq SidebarOptions(merged_df, [filters EXCEPT ![G] = {}], F)

\* C6 witness: title is offered while variation carries a selection, and
\* fewer titles are offered than the table holds.
C6_Witness ==
    /\ pc = "sidebar" /\ fidx = 2
    /\ filters["variation"] # {}
    /\ options["title"] # {}
    /\ options["title"] # AllValues("title")

\* Sum of a metric over the rows of the loaded table with index in S.
RECURSIVE SumMetric(_, _)
SumMetric(S, metric) ==
    IF S = {} THEN 0
    ELSE LET n == CHOOSE m \in S : TRUE
         IN  Num(merged_df[n][metric]) + SumMetric(S \ {n}, metric)

KeptMin == MinOf({Day(merged_df[n]) : n \in Kept})

\* C7: for a non-empty filtered table, the buckets are the right-open
\* intervals of interval_days days counted from the minimum date of the
\* filtered table, every filtered record lies in exactly one bucket of its
\* title, and the per-(title, bucket) sales sum to the filtered total.
C7_BucketsPartition ==
    (Displayed /\ Kept # {}) =>
        LET agg == output.sales_agg
            w == interval_days
        IN  /\ output.aggregated
            /\ w \in {7, 15, 30}
            /\ \A i \in 1..Len(agg) :
                  agg[i].date >= KeptMin /\ (agg[i].date - KeptMin) % w = 0
            /\ \E i \in 1..Len(agg) : agg[i].date = KeptMin
            /\ \A n \in Kept :
                  Cardinality({i \in 1..Len(agg) :
                      /\ agg[i].title = merged_df[n].ids["title"]
                      /\ agg[i].date <= Day(merged_df[n])
                      /\ Day(merged_df[n]) < agg[i].date + w}) = 1
            /\ SumSeq([i \in 1..Len(agg) |-> agg[i].sales])
                  = SumMetric(Kept, "sales")

\* C7 witness: an aggregation whose first bucket starts later than the first
\* date of the loaded table and that has records in two buckets.
C7_Witness ==
    /\ Displayed /\ Kept # {} /\ output.aggregated
    /\ KeptMin > MinOf(MergedDays)
    /\ \E i, j \in 1..Len(output.sales_agg) :
          output.sales_agg[i].date < output.sales_agg[j].date

\* The filtered records of one title and bucket.
Group(title, start) ==
    {n \in Kept : /\ merged_df[n].ids["title"] = title
                  /\ start <= Day(merged_df[n])
                  /\ Day(merged_df[n]) < start + interval_days}

\* C8: the restocks value of every (title, bucket) group is the absolute
\* value of the signed sum of the group's restock entries, never negative.
C8_RestockMagnitude ==
    (Displayed /\ Kept # {}) =>
        LET agg == output.restocks_agg
        IN  /\ \A n \in Kept : \E i \in 1..Len(agg) : n \in Group(agg[i].title, agg[i].date)
            /\ \A i \in 1..Len(agg) :
                  /\ agg[i].restocks >= 0
                  /\ agg[i].restocks =
                        Abs(SumMetric(Group(agg[i].title, agg[i].date), "restocks"))

\* C8 witness: a group whose entries are -5 and +2 and whose value is 3.
C8_Witness ==
    /\ Displayed /\ Kept # {}
    /\ \E i \in 1..Len(output.restocks_agg) :
          LET g == Group(output.restocks_agg[i].title, output.restocks_agg[i].date)
          IN  /\ {Num(merged_df[n].restocks) : n \in g} = {-5, 2}
              /\ Cardinality(g) = 2
              /\ output.restocks_agg[i].restocks = 3

\* C9: in every rerun in which the selections and the inclusive date range
\* leave no row, the no-data warning is emitted, nothing is aggregated and
\* neither chart nor the data table is rendered.
C9_EmptyResultSignal ==
    (Displayed /\ Kept = {}) =>
        /\ output.warning
        /\ ~output.aggregated
        /\ output.sales_agg = <<>> /\ output.restocks_agg = <<>>
        /\ output.charts = <<>>
        /\ output.table = <<>>

\* C9 witness: a rerun that ended in the warning although some field
\* carries a selection.
C9_Witness ==
    /\ Displayed /\ Kept = {} /\ output.warning
    /\ \E f \in FilterFields : filters[f] # {}

\* C10: once the sidebar loop has processed every field, the category
\* selections alone leave at least one row of the loaded table.
C10_SelectionsKeepARow ==
    (pc \in {"render", "idle"}) =>
        /\ ~IsEmpty(get_filtered_df(merged_df, filters))
        /\ \E n \in 1..Len(merged_df) : Passes(n, filters)

\* C10 witness: the loop has ended with two titles selected, one of which
\* does not occur with the one selected variation, and with the remaining
\* selections empty.
C10_Witness ==
    /\ pc = "render"
    /\ filters["title"] = {"A", "B"}
    /\ filters["variation"] = {"v1"}
    /\ filters["country"] = {}

=============================================================================
